---- MODULE Spec2Model ----
(***************************************************************************)
(* Model of IoTGo: the bit-banged DHT22 reader (sensors/dht22.go) and the  *)
(* periodic scheduler that calls it (main.go, readAllSensors).             *)
(*                                                                         *)
(* Durations are time.Duration values, i.e. integer nanoseconds.  Bytes    *)
(* are naturals below 256 and byte arithmetic wraps modulo 256.  Go slices *)
(* are 0-based; sequences here are 1-based and are read through At0.       *)
(* A float64 result x/10.0 is kept as the exact quotient [num, den].       *)
(***************************************************************************)
EXTENDS Integers, Sequences, FiniteSets, TLC

\* ------------------------------------------------------------------------
\* Program constants
\* ------------------------------------------------------------------------

\* dht22.go:99  "if len(transitions) >= 83"
NeedTransitions == 83

\* dht22.go:114 "bitIndex < 40"
DataBits == 40

\* dht22.go:62  "data := make([]byte, 5)"
FrameBytes == 5

\* dht22.go:122 "50*time.Microsecond", in nanoseconds
Threshold == 50 * 1000

\* dht22.go:140,144  divisor of "/ 10.0"
Scale == 10

\* ------------------------------------------------------------------------
\* Machine arithmetic
\* ------------------------------------------------------------------------

At0(s, i) == s[i + 1]

Pow2(n) == 2 ^ n

\* byte(x): truncation to 8 bits
ToByte(x) == x % 256

\* x << n
Shl(x, n) == x * Pow2(n)

RECURSIVE BitOr(_, _)
BitOr(a, b) ==
    IF a = 0 THEN b
    ELSE IF b = 0 THEN a
    ELSE (IF (a % 2 = 1) \/ (b % 2 = 1) THEN 1 ELSE 0)
         + 2 * BitOr(a \div 2, b \div 2)

RECURSIVE BitAnd(_, _)
BitAnd(a, b) ==
    IF a = 0 \/ b = 0 THEN 0
    ELSE (IF (a % 2 = 1) /\ (b % 2 = 1) THEN 1 ELSE 0)
         + 2 * BitAnd(a \div 2, b \div 2)

\* byte addition, wrapping
AddByte(a, b) == (a + b) % 256

ZeroData == [i \in 1..FrameBytes |-> 0]

\* ------------------------------------------------------------------------
\* readDHT22, the pure parts
\* ------------------------------------------------------------------------

\* variant of BitOf: the threshold itself counts as a 1
BitOf_AtLeast(highDuration) == IF highDuration >= Threshold THEN 1 ELSE 0

\* dht22.go:119-124: the bit carried by one high pulse
BitOf(highDuration) == IF highDuration > Threshold THEN 1 ELSE 0

\* variant of DecodeLoop: bits are packed least significant bit first
RECURSIVE DecodeLoop_LsbFirst(_, _, _, _)
DecodeLoop_LsbFirst(tr, i, bitIndex, data) ==
    IF ~(i < Len(tr) /\ bitIndex < DataBits) THEN data
    ELSE IF i + 1 >= Len(tr) THEN data
    ELSE LET highDuration == At0(tr, i + 1)
             bit          == IF highDuration > Threshold THEN 1 ELSE 0
             byteIndex    == bitIndex \div 8
             bitOffset    == bitIndex % 8
             newData      == [data EXCEPT ![byteIndex + 1] =
                                 BitOr(@, ToByte(Shl(bit, bitOffset)))]
         IN  DecodeLoop_LsbFirst(tr, i + 2, bitIndex + 1, newData)

\* dht22.go:113-130: the decoding loop, i and bitIndex as in the source
RECURSIVE DecodeLoop(_, _, _, _)
DecodeLoop(tr, i, bitIndex, data) ==
    IF ~(i < Len(tr) /\ bitIndex < DataBits) THEN data
    ELSE IF i + 1 >= Len(tr) THEN data
    ELSE LET highDuration == At0(tr, i + 1)
             bit          == BitOf(highDuration)
             byteIndex    == bitIndex \div 8
             bitOffset    == 7 - (bitIndex % 8)
             newData      == [data EXCEPT ![byteIndex + 1] =
                                 BitOr(@, ToByte(Shl(bit, bitOffset)))]
         IN  DecodeLoop(tr, i + 2, bitIndex + 1, newData)

\* dht22.go:133
Checksum(data) ==
    AddByte(AddByte(AddByte(At0(data, 0), At0(data, 1)), At0(data, 2)), At0(data, 3))

\* dht22.go:134
ChecksumOk(data) == Checksum(data) = At0(data, 4)

\* dht22.go:139-140
Humidity(data) ==
    LET humidityRaw == BitOr(Shl(At0(data, 0), 8), At0(data, 1))
    IN  [num |-> humidityRaw, den |-> Scale]

\* variant of Temperature: the sign flag is ignored
Temperature_NoSign(data) ==
    LET temperatureRaw == BitOr(Shl(BitAnd(At0(data, 2), 127), 8), At0(data, 3))
    IN  [num |-> temperatureRaw, den |-> Scale]

\* dht22.go:143-149
Temperature(data) ==
    LET temperatureRaw == BitOr(Shl(BitAnd(At0(data, 2), 127), 8), At0(data, 3))
    IN  IF BitAnd(At0(data, 2), 128) # 0
        THEN [num |-> 0 - temperatureRaw, den |-> Scale]
        ELSE [num |-> temperatureRaw, den |-> Scale]

Zero == [num |-> 0, den |-> 1]

\* the (temperature, humidity, err) triple readDHT22 returns; n is the count
\* an error message carries, 0 when it carries none
Ret(t, h, e, n) == [temperature |-> t, humidity |-> h, err |-> e, count |-> n]

NoRet == Ret(Zero, Zero, "unset", 0)

\* variant of Extract: the values are returned whatever the checksum
Extract_Unchecked(data) == Ret(Temperature(data), Humidity(data), "nil", 0)

\* dht22.go:132-151
Extract(data) ==
    IF ~ChecksumOk(data)
    THEN Ret(Zero, Zero, "checksum mismatch", 0)
    ELSE Ret(Temperature(data), Humidity(data), "nil", 0)

\* ------------------------------------------------------------------------
\* Inputs: what the line shows during one read
\* ------------------------------------------------------------------------

\* humidity and temperature magnitudes, in tenths
HumVals == {0, 453, 65535}

TempVals == {0, 237, 32767}

SignVals == {0, 1}

\* the four payload bytes, big-endian, sign in bit 7 of byte 2
Payload(h, t, neg) == <<h \div 256, h % 256, (t \div 256) + 128 * neg, t % 256>>

\* payload plus a fifth byte that is the checksum plus delta
FrameOf(h, t, neg, delta) ==
    LET p == Payload(h, t, neg)
    IN  p \o <<(p[1] + p[2] + p[3] + p[4] + delta) % 256>>

\* pulse widths in nanoseconds: low pulse, high pulse of a 0, high pulse of a 1
NominalWidths == [low |-> 50000, zero |-> 27000, one |-> 70000]

EdgeWidths == [low |-> 80000, zero |-> 50000, one |-> 50001]

WidthSets == {NominalWidths, EdgeWidths}

\* the three transitions of the sensor's response before the first bit
ResponsePulses == <<20000, 80000, 80000>>

\* bit k (0..39) of a frame, most significant bit of byte 0 first
FrameBit(frame, k) == (At0(frame, k \div 8) \div Pow2(7 - (k % 8))) % 2

\* the 83 transitions a sensor sending frame produces
WaveOf(frame, w) ==
    [j \in 1..NeedTransitions |->
        IF j <= 3 THEN ResponsePulses[j]
        ELSE LET k == (j - 4) \div 2
             IN  IF (j - 4) % 2 = 0 THEN w.low
                 ELSE IF FrameBit(frame, k) = 1 THEN w.one ELSE w.zero]

FullWaves ==
    {WaveOf(FrameOf(h, t, neg, delta), w) :
        h \in HumVals, t \in TempVals, neg \in SignVals,
        delta \in {0, 1}, w \in WidthSets}

BaseWave == WaveOf(FrameOf(453, 237, 0, 0), NominalWidths)

\* lengths at which the line stops changing before the frame is complete
ShortLens == {0, 1, 2, 3, 4, 40, 82}

ShortWaves == {SubSeq(BaseWave, 1, n) : n \in ShortLens}

\* how many further level changes a line that keeps toggling shows
MaxOverrun == 2

\* a line that keeps toggling after the frame
LongWaves == {BaseWave \o [i \in 1..n |-> 50000] : n \in 1..MaxOverrun}

Waves == FullWaves \cup ShortWaves \cup LongWaves

Levels == {"Low", "High"}

\* ------------------------------------------------------------------------
\* State
\* ------------------------------------------------------------------------

\* goroutines that call Read on the one DHT22 instance
Callers == {"sched", "other"}

VARIABLES
    pc,           \* per caller: position in Read / readDHT22
    wave,         \* per caller: durations the clock will measure in this read
    transitions,  \* per caller: dht22.go:81
    lastLevel,    \* per caller: dht22.go:83
    timerFired,   \* per caller: the time.After channel of dht22.go:86 is ready
    data,         \* per caller: dht22.go:62
    ret,          \* per caller: what readDHT22 returns
    out,          \* per caller: what Read returns
    ops,          \* per caller: handshake calls issued, and whether the level was read, in the current Read
    pin,          \* configuration of d.gpioPin
    lastOp,       \* caller that issued the most recent line operation
    interleaved,  \* a line operation fell between two of another Read
    schedPc,      \* readAllSensors: position
    idx,          \* readAllSensors: index of the range loop, 1-based
    tickPending,  \* a tick is buffered in ticker.C
    cur,          \* readAllSensors: data, err of the current iteration
    tickLog,      \* what readAllSensors did since it received the last tick
    closes,       \* number of calls of DHT22.Close so far
    closeResult,  \* how the last call of Close ended
    prior,        \* per caller: error of the Read it completed before the current one
    hpc,          \* per connection: position of its handleWebSocket goroutine
    conn,         \* per connection: state of the *websocket.Conn
    clients,      \* main.go:257, the keys of the map
    visited,      \* broadcastToClients: keys the range loop has produced
    curClient,    \* broadcastToClients: the loop variable client
    lastWrite     \* the most recent WriteJSON of broadcastToClients

readVars == <<pc, wave, transitions, lastLevel, timerFired, data, ret, out,
              ops, pin, lastOp, interleaved>>

schedVars == <<schedPc, idx, tickPending, cur, tickLog>>

libVars == <<closes, closeResult, prior>>

wsVars == <<hpc, conn, clients, visited, curClient, lastWrite>>

vars == <<pc, wave, transitions, lastLevel, timerFired, data, ret, out,
          ops, pin, lastOp, interleaved, schedPc, idx, tickPending, cur, tickLog,
          closes, closeResult, prior, hpc, conn, clients, visited, curClient,
          lastWrite>>

\* the connections the server accepts
Conns == {"k1", "k2"}

NoConn == "none"

NoWrite == [to |-> NoConn, registered |-> TRUE, conn |-> "open", exited |-> FALSE]

Nil == [SensorType |-> "nil"]

NoOut == [data |-> Nil, err |-> "unset", count |-> 0]

NoOps == [low |-> 0, high |-> 0, input |-> 0, read |-> 0]

\* main.go:285-289
Sensors == <<"DHT22", "BMP280", "GY32">>

ReadInit ==
    /\ pc = [c \in Callers |-> "idle"]
    /\ wave = [c \in Callers |-> <<>>]
    /\ transitions = [c \in Callers |-> <<>>]
    /\ lastLevel = [c \in Callers |-> "Low"]
    /\ timerFired = [c \in Callers |-> FALSE]
    /\ data = [c \in Callers |-> ZeroData]
    /\ ret = [c \in Callers |-> NoRet]
    /\ out = [c \in Callers |-> NoOut]
    /\ ops = [c \in Callers |-> NoOps]
    /\ pin = "unset"
    /\ lastOp = "none"
    /\ interleaved = FALSE

SchedInit ==
    /\ schedPc = "waitTick"
    /\ idx = 0
    /\ tickPending = FALSE
    /\ cur = NoOut
    /\ tickLog = <<>>

LibInit ==
    /\ closes = 0
    /\ closeResult = "none"
    /\ prior = [c \in Callers |-> "none"]

WsInit ==
    /\ hpc = [k \in Conns |-> "idle"]
    /\ conn = [k \in Conns |-> "none"]
    /\ clients = {}
    /\ visited = {}
    /\ curClient = NoConn
    /\ lastWrite = NoWrite

Init == ReadInit /\ SchedInit /\ LibInit /\ WsInit

\* ------------------------------------------------------------------------
\* DHT22.Read / readDHT22, one action per step
\* ------------------------------------------------------------------------

\* bookkeeping of one line operation by caller c
Touch(c, op) ==
    /\ interleaved' = (interleaved \/ (ops[c].low > 0 /\ lastOp # c))
    /\ lastOp' = c
    /\ ops' = [ops EXCEPT ![c][op] = IF op = "read" THEN 1 ELSE @ + 1]

\* readDHT22 returns r
Return(c, r) ==
    /\ ret' = [ret EXCEPT ![c] = r]
    /\ pc' = [pc EXCEPT ![c] = "ret"]

\* variant of ReadCall: data is a buffer kept from the call before, not zeroed
ReadCall_ReuseBuffer(c, W) ==
    /\ pc[c] = "idle"
    /\ \E w \in W : wave' = [wave EXCEPT ![c] = w]
    /\ ops' = [ops EXCEPT ![c] = NoOps]
    /\ pc' = [pc EXCEPT ![c] = "outLow"]
    /\ UNCHANGED <<data, transitions, lastLevel, timerFired, ret, out, pin, lastOp,
                   interleaved>>

\* dht22.go:39-40, 60-62: Read is entered, data is allocated
ReadCall(c, W) ==
    /\ pc[c] = "idle"
    /\ \E w \in W : wave' = [wave EXCEPT ![c] = w]
    /\ data' = [data EXCEPT ![c] = ZeroData]
    /\ ops' = [ops EXCEPT ![c] = NoOps]
    /\ pc' = [pc EXCEPT ![c] = "outLow"]
    /\ UNCHANGED <<transitions, lastLevel, timerFired, ret, out, pin, lastOp,
                   interleaved>>

\* dht22.go:65-68
OutLow(c) ==
    /\ pc[c] = "outLow"
    /\ Touch(c, "low")
    /\ \E ok \in BOOLEAN :
         IF ok
         THEN /\ pin' = "low"
              /\ pc' = [pc EXCEPT ![c] = "outHigh"]
              /\ UNCHANGED ret
         ELSE /\ Return(c, Ret(Zero, Zero, "failed to set pin low", 0))
              /\ UNCHANGED pin
    /\ UNCHANGED <<wave, transitions, lastLevel, timerFired, data, out>>

\* variant of OutHigh: the error of Out(gpio.High) is dropped
OutHigh_IgnoreErr(c) ==
    /\ pc[c] = "outHigh"
    /\ Touch(c, "high")
    /\ \E ok \in BOOLEAN :
         /\ pin' = IF ok THEN "high" ELSE pin
         /\ pc' = [pc EXCEPT ![c] = "setIn"]
         /\ UNCHANGED ret
    /\ UNCHANGED <<wave, transitions, lastLevel, timerFired, data, out>>

\* dht22.go:70-73
OutHigh(c) ==
    /\ pc[c] = "outHigh"
    /\ Touch(c, "high")
    /\ \E ok \in BOOLEAN :
         IF ok
         THEN /\ pin' = "high"
              /\ pc' = [pc EXCEPT ![c] = "setIn"]
              /\ UNCHANGED ret
         ELSE /\ Return(c, Ret(Zero, Zero, "failed to set pin high", 0))
              /\ UNCHANGED pin
    /\ UNCHANGED <<wave, transitions, lastLevel, timerFired, data, out>>

\* dht22.go:76-78
SetInput(c) ==
    /\ pc[c] = "setIn"
    /\ Touch(c, "input")
    /\ \E ok \in BOOLEAN :
         IF ok
         THEN /\ pin' = "in"
              /\ pc' = [pc EXCEPT ![c] = "firstRead"]
              /\ UNCHANGED ret
         ELSE /\ Return(c, Ret(Zero, Zero, "failed to set pin to input", 0))
              /\ UNCHANGED pin
    /\ UNCHANGED <<wave, transitions, lastLevel, timerFired, data, out>>

\* dht22.go:81-86: first level read, the deadline timer is started
FirstRead(c) ==
    /\ pc[c] = "firstRead"
    /\ Touch(c, "read")
    /\ transitions' = [transitions EXCEPT ![c] = <<>>]
    /\ \E level \in Levels : lastLevel' = [lastLevel EXCEPT ![c] = level]
    /\ timerFired' = [timerFired EXCEPT ![c] = FALSE]
    /\ pc' = [pc EXCEPT ![c] = "sample"]
    /\ UNCHANGED <<wave, data, ret, out, pin>>

\* the runtime delivers the value of time.After(200ms)
TimerFire(c) ==
    /\ pc[c] = "sample"
    /\ ~timerFired[c]
    /\ timerFired' = [timerFired EXCEPT ![c] = TRUE]
    /\ UNCHANGED <<pc, wave, transitions, lastLevel, data, ret, out, ops, pin,
                   lastOp, interleaved>>

\* variant of SampleTimeout: the deadline is reported as insufficient data
SampleTimeout_Insufficient(c) ==
    /\ pc[c] = "sample"
    /\ timerFired[c]
    /\ Return(c, Ret(Zero, Zero, "insufficient data", Len(transitions[c])))
    /\ UNCHANGED <<wave, transitions, lastLevel, timerFired, data, out, ops, pin,
                   lastOp, interleaved>>

\* variant of SampleTimeout: the deadline re-arms the timer and polling goes on
SampleTimeout_Rearm(c) ==
    /\ pc[c] = "sample"
    /\ timerFired[c]
    /\ timerFired' = [timerFired EXCEPT ![c] = FALSE]
    /\ UNCHANGED <<pc, wave, transitions, lastLevel, data, ret, out, ops, pin,
                   lastOp, interleaved>>

\* dht22.go:89-90: the select takes the timeout case
SampleTimeout(c) ==
    /\ pc[c] = "sample"
    /\ timerFired[c]
    /\ Return(c, Ret(Zero, Zero, "timeout waiting for sensor response", 0))
    /\ UNCHANGED <<wave, transitions, lastLevel, timerFired, data, out, ops, pin,
                   lastOp, interleaved>>

\* variant of SamplePoll: sampling is left one transition early
SamplePoll_Early(c) ==
    /\ pc[c] = "sample"
    /\ ~timerFired[c]
    /\ Touch(c, "read")
    /\ \E level \in Levels :
         /\ (level # lastLevel[c]) => Len(transitions[c]) < Len(wave[c])
         /\ IF level # lastLevel[c]
            THEN LET appended == Append(transitions[c],
                                        wave[c][Len(transitions[c]) + 1])
                 IN  /\ transitions' = [transitions EXCEPT ![c] = appended]
                     /\ lastLevel' = [lastLevel EXCEPT ![c] = level]
                     /\ pc' = [pc EXCEPT ![c] =
                                 IF Len(appended) >= NeedTransitions - 1
                                 THEN "parse" ELSE "sample"]
            ELSE UNCHANGED <<transitions, lastLevel, pc>>
    /\ UNCHANGED <<wave, timerFired, data, ret, out, pin>>

\* dht22.go:91-102: the select takes the default case, one poll of the line.
\* The line has changed when the wave has a further duration to measure.
SamplePoll(c) ==
    /\ pc[c] = "sample"
    /\ ~timerFired[c]
    /\ Touch(c, "read")
    /\ \E level \in Levels :
         /\ (level # lastLevel[c]) => Len(transitions[c]) < Len(wave[c])
         /\ IF level # lastLevel[c]
            THEN LET appended == Append(transitions[c],
                                        wave[c][Len(transitions[c]) + 1])
                 IN  /\ transitions' = [transitions EXCEPT ![c] = appended]
                     /\ lastLevel' = [lastLevel EXCEPT ![c] = level]
                     /\ pc' = [pc EXCEPT ![c] =
                                 IF Len(appended) >= NeedTransitions
                                 THEN "parse" ELSE "sample"]
            ELSE UNCHANGED <<transitions, lastLevel, pc>>
    /\ UNCHANGED <<wave, timerFired, data, ret, out, pin>>

\* dht22.go:106-130
ParseData(c) ==
    /\ pc[c] = "parse"
    /\ IF Len(transitions[c]) < NeedTransitions
       THEN /\ Return(c, Ret(Zero, Zero, "insufficient data", Len(transitions[c])))
            /\ UNCHANGED data
       ELSE /\ data' = [data EXCEPT ![c] = DecodeLoop(transitions[c], 3, 0, data[c])]
            /\ pc' = [pc EXCEPT ![c] = "checksum"]
            /\ UNCHANGED ret
    /\ UNCHANGED <<wave, transitions, lastLevel, timerFired, out, ops, pin,
                   lastOp, interleaved>>

\* variant of VerifyChecksum: a checksum mismatch restarts the handshake
VerifyChecksum_Retry(c) ==
    /\ pc[c] = "checksum"
    /\ IF ChecksumOk(data[c])
       THEN Return(c, Extract(data[c]))
       ELSE /\ pc' = [pc EXCEPT ![c] = "outLow"]
            /\ UNCHANGED ret
    /\ UNCHANGED <<wave, transitions, lastLevel, timerFired, data, out, ops, pin,
                   lastOp, interleaved>>

\* dht22.go:132-151
VerifyChecksum(c) ==
    /\ pc[c] = "checksum"
    /\ Return(c, Extract(data[c]))
    /\ UNCHANGED <<wave, transitions, lastLevel, timerFired, data, out, ops, pin,
                   lastOp, interleaved>>

\* unnamed/part_003:33-37, SensorData (the timestamp is not modelled)
SensorData(kind, fields) == [SensorType |-> kind, Fields |-> fields]

\* variant of ReadResult: the reading is built before the error is looked at
ReadResult_Both(r) ==
    [data |-> SensorData("dht22",
                 [temperature |-> r.temperature, humidity |-> r.humidity]),
     err |-> r.err, count |-> r.count]

\* dht22.go:40-53: Read wraps the triple
ReadResult(r) ==
    IF r.err # "nil"
    THEN [data |-> Nil, err |-> r.err, count |-> r.count]
    ELSE [data |-> SensorData("dht22",
                       [temperature |-> r.temperature, humidity |-> r.humidity]),
          err |-> "nil", count |-> 0]

ReadWrap(c) ==
    /\ pc[c] = "ret"
    /\ out' = [out EXCEPT ![c] = ReadResult(ret[c])]
    /\ pc' = [pc EXCEPT ![c] = "returned"]
    /\ UNCHANGED <<wave, transitions, lastLevel, timerFired, data, ret, ops, pin,
                   lastOp, interleaved>>

\* Read has returned to its caller: the locals of the call are gone; the
\* bytes of its data buffer stay in memory until the next call allocates
\* a zeroed one (dht22.go:62)
ReadExit(c) ==
    /\ pc[c] = "returned"
    /\ pc' = [pc EXCEPT ![c] = "idle"]
    /\ wave' = [wave EXCEPT ![c] = <<>>]
    /\ transitions' = [transitions EXCEPT ![c] = <<>>]
    /\ lastLevel' = [lastLevel EXCEPT ![c] = "Low"]
    /\ timerFired' = [timerFired EXCEPT ![c] = FALSE]
    /\ ret' = [ret EXCEPT ![c] = NoRet]
    /\ out' = [out EXCEPT ![c] = NoOut]
    /\ UNCHANGED <<data, ops, pin, lastOp, interleaved>>

\* the steps of a Read between its call and its return
ReadStep(c) ==
    \/ OutLow(c)
    \/ OutHigh(c)
    \/ SetInput(c)
    \/ FirstRead(c)
    \/ SampleTimeout(c)
    \/ SamplePoll(c)
    \/ ParseData(c)
    \/ VerifyChecksum(c)
    \/ ReadWrap(c)

\* ------------------------------------------------------------------------
\* The simulated sensors
\* ------------------------------------------------------------------------

\* values of rand.Float64(), in tenths
RandTenths == {0, 5}

\* unnamed/part_002:16-29, BMP280.Read
ReadBMP280(r1, r2) ==
    [data |-> SensorData("bmp280",
                 [pressure    |-> [num |-> 10000 + r1 * 50, den |-> Scale],
                  temperature |-> [num |-> 200 + r2 * 10, den |-> Scale]]),
     err |-> "nil", count |-> 0]

\* unnamed/part_003:16-27, GY32.Read
ReadGY32(r1) ==
    [data |-> SensorData("gy32", [light |-> [num |-> 1000 + r1 * 400, den |-> Scale]]),
     err |-> "nil", count |-> 0]

\* ------------------------------------------------------------------------
\* readAllSensors (main.go:325-347)
\* ------------------------------------------------------------------------

Log(entry) == tickLog' = Append(tickLog, entry)

\* the runtime puts a tick into ticker.C; a tick is dropped while one is buffered
Tick ==
    /\ ~tickPending
    /\ tickPending' = TRUE
    /\ UNCHANGED <<schedPc, idx, cur, tickLog>>
    /\ UNCHANGED <<readVars, libVars, wsVars>>

\* main.go:330-331: a tick is received, the range loop starts
SchedRecvTick ==
    /\ schedPc = "waitTick"
    /\ tickPending
    /\ tickPending' = FALSE
    /\ idx' = 1
    /\ tickLog' = <<>>
    /\ schedPc' = "callRead"
    /\ UNCHANGED cur
    /\ UNCHANGED <<readVars, libVars, wsVars>>

\* main.go:345-346, 335: the next iteration of the range loop, or its end
Advance ==
    /\ idx' = idx + 1
    /\ cur' = NoOut
    /\ schedPc' = IF idx + 1 > Len(Sensors) THEN "waitTick" ELSE "callRead"

\* main.go:332 for the DHT22: Read is entered
SchedCallDHT22 ==
    /\ schedPc = "callRead"
    /\ Sensors[idx] = "DHT22"
    /\ ReadCall("sched", Waves)
    /\ Log(<<"read", idx>>)
    /\ schedPc' = "inRead"
    /\ UNCHANGED <<idx, tickPending, cur>>
    /\ UNCHANGED <<libVars, wsVars>>

\* main.go:332 for the DHT22: Read returns data, err
SchedReadDone ==
    /\ schedPc = "inRead"
    /\ cur' = out["sched"]
    /\ ReadExit("sched")
    /\ schedPc' = "gotRead"
    /\ UNCHANGED <<idx, tickPending, tickLog>>
    /\ UNCHANGED <<libVars, wsVars>>

\* main.go:332 for a simulated sensor
SchedReadSim ==
    /\ schedPc = "callRead"
    /\ Sensors[idx] # "DHT22"
    /\ \E r1 \in RandTenths, r2 \in RandTenths :
         cur' = IF Sensors[idx] = "BMP280" THEN ReadBMP280(r1, r2) ELSE ReadGY32(r1)
    /\ Log(<<"read", idx>>)
    /\ schedPc' = "gotRead"
    /\ UNCHANGED <<idx, tickPending>>
    /\ UNCHANGED <<readVars, libVars, wsVars>>

\* variant of SchedCheckErr: the error is logged and the iteration goes on
SchedCheckErr_NoContinue ==
    /\ schedPc = "gotRead"
    /\ IF cur.err # "nil"
       THEN /\ Log(<<"error", idx>>)
            /\ schedPc' = "write"
            /\ UNCHANGED <<idx, cur>>
       ELSE /\ schedPc' = "write"
            /\ UNCHANGED <<idx, cur, tickLog>>
    /\ UNCHANGED tickPending
    /\ UNCHANGED <<readVars, libVars, wsVars>>

\* variant of SchedCheckErr: an error leaves the range loop
SchedCheckErr_Break ==
    /\ schedPc = "gotRead"
    /\ IF cur.err # "nil"
       THEN /\ Log(<<"error", idx>>)
            /\ idx' = Len(Sensors) + 1
            /\ cur' = NoOut
            /\ schedPc' = "waitTick"
       ELSE /\ schedPc' = "write"
            /\ UNCHANGED <<idx, cur, tickLog>>
    /\ UNCHANGED tickPending
    /\ UNCHANGED <<readVars, libVars, wsVars>>

\* main.go:333-338
SchedCheckErr ==
    /\ schedPc = "gotRead"
    /\ IF cur.err # "nil"
       THEN /\ Log(<<"error", idx>>)
            /\ Advance
       ELSE /\ schedPc' = "write"
            /\ UNCHANGED <<idx, cur, tickLog>>
    /\ UNCHANGED tickPending
    /\ UNCHANGED <<readVars, libVars, wsVars>>

\* main.go:341, 349-360
SchedWrite ==
    /\ schedPc = "write"
    /\ Log(<<"write", idx>>)
    /\ schedPc' = "broadcast"
    /\ UNCHANGED <<idx, tickPending, cur>>
    /\ UNCHANGED <<readVars, libVars, wsVars>>

\* main.go:344, 385: broadcastToClients is called, the range over clients
\* starts; over an empty map it ends at once
SchedBroadcast ==
    /\ schedPc = "broadcast"
    /\ Log(<<"broadcast", idx>>)
    /\ IF clients = {}
       THEN Advance
       ELSE /\ schedPc' = "bcastNext"
            /\ UNCHANGED <<idx, cur>>
    /\ UNCHANGED tickPending
    /\ UNCHANGED <<readVars, libVars, wsVars>>

\* main.go:385: the range loop produces the next key, or ends
BcastNext ==
    /\ schedPc = "bcastNext"
    /\ IF clients \ visited = {}
       THEN /\ Advance
            /\ visited' = {}
            /\ curClient' = NoConn
       ELSE /\ \E k \in clients \ visited :
                 /\ curClient' = k
                 /\ visited' = visited \cup {k}
            /\ schedPc' = "bcastWrite"
            /\ UNCHANGED <<idx, cur>>
    /\ UNCHANGED <<tickPending, tickLog, hpc, conn, clients, lastWrite>>
    /\ UNCHANGED <<readVars, libVars>>

\* main.go:386: client.WriteJSON(data); it fails on a connection that is not
\* open and may fail on an open one
BcastWrite ==
    /\ schedPc = "bcastWrite"
    /\ lastWrite' = [to |-> curClient, registered |-> curClient \in clients,
                     conn |-> conn[curClient], exited |-> hpc[curClient] = "done"]
    /\ \E err \in BOOLEAN :
         /\ conn[curClient] # "open" => err
         /\ schedPc' = IF err THEN "bcastDrop" ELSE "bcastNext"
    /\ UNCHANGED <<idx, tickPending, cur, tickLog, hpc, conn, clients, visited,
                   curClient>>
    /\ UNCHANGED <<readVars, libVars>>

\* main.go:387-389: the failed client is closed and deleted from the map
BcastDrop ==
    /\ schedPc = "bcastDrop"
    /\ conn' = [conn EXCEPT ![curClient] = IF @ = "open" THEN "dropped" ELSE @]
    /\ clients' = clients \ {curClient}
    /\ schedPc' = "bcastNext"
    /\ UNCHANGED <<idx, tickPending, cur, tickLog, hpc, visited, curClient,
                   lastWrite>>
    /\ UNCHANGED <<readVars, libVars>>

\* ------------------------------------------------------------------------
\* handleWebSocket (main.go:362-382), one goroutine per connection
\* ------------------------------------------------------------------------

WsStep(k, to) ==
    /\ hpc' = [hpc EXCEPT ![k] = to]
    /\ UNCHANGED <<visited, curClient, lastWrite>>
    /\ UNCHANGED <<readVars, libVars, schedVars>>

\* main.go:363-368
WsUpgrade(k) ==
    /\ hpc[k] = "idle"
    /\ \E ok \in BOOLEAN :
         IF ok
         THEN conn' = [conn EXCEPT ![k] = "open"] /\ WsStep(k, "upgraded")
         ELSE UNCHANGED conn /\ WsStep(k, "done")
    /\ UNCHANGED clients

\* main.go:370: the map assignment starts
WsRegisterBegin(k) ==
    /\ hpc[k] = "upgraded"
    /\ WsStep(k, "registering")
    /\ UNCHANGED <<conn, clients>>

\* main.go:370-373: the map assignment is done
WsRegisterEnd(k) ==
    /\ hpc[k] = "registering"
    /\ clients' = clients \cup {k}
    /\ WsStep(k, "reading")
    /\ UNCHANGED conn

\* main.go:376-381: ReadMessage fails, on a connection that is not open it
\* always does; the loop is left
WsReadFail(k) ==
    /\ hpc[k] = "reading"
    /\ WsStep(k, "exiting")
    /\ UNCHANGED <<conn, clients>>

\* main.go:371: the deferred delete starts
WsUnregisterBegin(k) ==
    /\ hpc[k] = "exiting"
    /\ WsStep(k, "unregistering")
    /\ UNCHANGED <<conn, clients>>

\* main.go:371: the deferred delete is done
WsUnregisterEnd(k) ==
    /\ hpc[k] = "unregistering"
    /\ clients' = clients \ {k}
    /\ WsStep(k, "closing")
    /\ UNCHANGED conn

\* main.go:368: the deferred conn.Close()
WsClose(k) ==
    /\ hpc[k] = "closing"
    /\ conn' = [conn EXCEPT ![k] = IF @ = "open" THEN "closed" ELSE @]
    /\ WsStep(k, "done")
    /\ UNCHANGED clients

\* goroutines that are inside an operation on the map clients
MapAccessors ==
    {k \in Conns : hpc[k] \in {"registering", "unregistering"}}
    \cup (IF schedPc \in {"bcastNext", "bcastWrite", "bcastDrop"}
          THEN {"broadcast"} ELSE {})

\* the runtime detects the concurrent map access and ends the process
MapFault ==
    /\ Cardinality(MapAccessors) >= 2
    /\ schedPc' = "fatal"
    /\ hpc' = [k \in Conns |-> "dead"]
    /\ UNCHANGED <<idx, tickPending, cur, tickLog, conn, clients, visited,
                   curClient, lastWrite>>
    /\ UNCHANGED <<readVars, libVars>>

\* ------------------------------------------------------------------------
\* Specifications
\* ------------------------------------------------------------------------

\* steps of the Read in flight on the scheduler goroutine
SchedReadStep == ReadStep("sched") /\ UNCHANGED <<schedVars, libVars, wsVars>>

SchedTimerFire == TimerFire("sched") /\ UNCHANGED <<schedVars, libVars, wsVars>>

\* the program as main wires it: readAllSensors is the only caller of Read
Next ==
    \/ Tick
    \/ SchedRecvTick
    \/ SchedCallDHT22
    \/ SchedReadStep
    \/ SchedTimerFire
    \/ SchedReadDone
    \/ SchedReadSim
    \/ SchedCheckErr
    \/ SchedWrite
    \/ SchedBroadcast

Spec == Init /\ [][Next]_vars

\* the deadline timer fires and the goroutine inside Read keeps running
FairSpec == Spec /\ WF_vars(SchedTimerFire) /\ WF_vars(SchedReadStep)

\* the waves two overlapping reads measure
ConcWaves(c) ==
    IF c = "sched" THEN {BaseWave} ELSE {SubSeq(BaseWave, 1, n) : n \in {0, 3}}

\* a caller of the exported Read enters it
CallRead(c) == ReadCall(c, ConcWaves(c)) /\ UNCHANGED <<schedVars, libVars, wsVars>>

CallerReadStep(c) == ReadStep(c) /\ UNCHANGED <<schedVars, libVars, wsVars>>

CallerTimerFire(c) == TimerFire(c) /\ UNCHANGED <<schedVars, libVars, wsVars>>

CallerReadReturn(c) == ReadExit(c) /\ UNCHANGED <<schedVars, libVars, wsVars>>

\* the DHT22 as a library type: any goroutine may call Read at any time
NextConc ==
    \E c \in Callers :
        \/ CallRead(c)
        \/ CallerReadStep(c)
        \/ CallerTimerFire(c)
        \/ CallerReadReturn(c)

SpecConc == Init /\ [][NextConc]_vars

\* the DHT22 shows no response while the viewers are modelled
WsWaves == {<<>>}

\* variant of WsCallDHT22: the Read is started on a goroutine of its own
WsCallDHT22_Spawn ==
    /\ schedPc = "callRead"
    /\ Sensors[idx] = "DHT22"
    /\ ReadCall("other", WsWaves)
    /\ Log(<<"read", idx>>)
    /\ schedPc' = "gotRead"
    /\ UNCHANGED <<idx, tickPending, cur>>
    /\ UNCHANGED <<libVars, wsVars>>

WsCallDHT22 ==
    /\ schedPc = "callRead"
    /\ Sensors[idx] = "DHT22"
    /\ ReadCall("sched", WsWaves)
    /\ Log(<<"read", idx>>)
    /\ schedPc' = "inRead"
    /\ UNCHANGED <<idx, tickPending, cur>>
    /\ UNCHANGED <<libVars, wsVars>>

\* the process has not been ended by the runtime
Alive == schedPc # "fatal"

\* the program with viewers connecting and disconnecting
NextWs ==
    \/ Alive /\ Tick
    \/ Alive /\ SchedRecvTick
    \/ Alive /\ WsCallDHT22
    \/ Alive /\ SchedReadStep
    \/ Alive /\ SchedTimerFire
    \/ Alive /\ SchedReadDone
    \/ Alive /\ SchedReadSim
    \/ Alive /\ SchedCheckErr
    \/ Alive /\ SchedWrite
    \/ Alive /\ SchedBroadcast
    \/ Alive /\ BcastNext
    \/ Alive /\ BcastWrite
    \/ Alive /\ BcastDrop
    \/ \E k \in Conns :
         \/ WsUpgrade(k)
         \/ WsRegisterBegin(k)
         \/ WsRegisterEnd(k)
         \/ WsReadFail(k)
         \/ WsUnregisterBegin(k)
         \/ WsUnregisterEnd(k)
         \/ WsClose(k)
    \/ MapFault

SpecWs == Init /\ [][NextWs]_vars

\* the waves of reads that follow one another on the same instance
HistWaves ==
    {BaseWave,
     WaveOf(FrameOf(453, 237, 0, 1), NominalWidths),
     <<>>}

\* a caller enters Read while no other Read is running; the goroutine
\* "other" reads once, "sched" any number of times
HistCallRead(c) ==
    /\ \A d \in Callers \ {c} : pc[d] \in {"idle", "returned"}
    /\ c = "other" => prior[c] = "none"
    /\ ReadCall(c, HistWaves)
    /\ UNCHANGED <<schedVars, libVars, wsVars>>

\* the deadline passes after the line has gone quiet
HistTimerFire(c) ==
    /\ Len(transitions[c]) = Len(wave[c])
    /\ TimerFire(c)
    /\ UNCHANGED <<schedVars, libVars, wsVars>>

\* Read returns to the caller, which remembers how it ended
HistReadReturn(c) ==
    /\ prior' = [prior EXCEPT ![c] = out[c].err]
    /\ ReadExit(c)
    /\ UNCHANGED <<closes, closeResult>>
    /\ UNCHANGED <<schedVars, wsVars>>

\* Reads that follow one another on one instance, from two goroutines
NextHist ==
    \E c \in Callers :
        \/ HistCallRead(c)
        \/ CallerReadStep(c)
        \/ HistTimerFire(c)
        \/ HistReadReturn(c)

SpecHist == Init /\ [][NextHist]_vars

\* how many times Close is called
MaxCloses == 2

\* variant of Close: the first call releases the pin, a further call panics
Close_Once ==
    /\ closes < MaxCloses
    /\ closes' = closes + 1
    /\ IF closes = 0
       THEN pin' = "released" /\ closeResult' = "returned"
       ELSE pin' = pin /\ closeResult' = "panic"
    /\ UNCHANGED <<pc, wave, transitions, lastLevel, timerFired, data, ret, out,
                   ops, lastOp, interleaved, prior>>
    /\ UNCHANGED <<schedVars, wsVars>>

\* dht22.go:55-57: Close has an empty body and returns
Close ==
    /\ closes < MaxCloses
    /\ closes' = closes + 1
    /\ closeResult' = "returned"
    /\ UNCHANGED <<readVars, prior>>
    /\ UNCHANGED <<schedVars, wsVars>>

\* the waves of the reads that run while Close is called
CloseWaves == {BaseWave, <<>>}

CloseCallRead == ReadCall("sched", CloseWaves) /\ UNCHANGED <<schedVars, libVars, wsVars>>

\* one goroutine reads, Close is called at any time, also during a Read
NextClose ==
    \/ Close
    \/ CloseCallRead
    \/ CallerReadStep("sched")
    \/ CallerTimerFire("sched")
    \/ CallerReadReturn("sched")

SpecClose == Init /\ [][NextClose]_vars

\* frames sent by the sensor, with a right or a wrong checksum
Frames ==
    {FrameOf(h, t, neg, delta) :
        h \in HumVals, t \in TempVals, neg \in SignVals, delta \in {0, 1}}

\* two reads that have each captured the 83 transitions of some frame
InitPair ==
    /\ pc = [c \in Callers |-> "parse"]
    /\ \E fa \in Frames, fb \in Frames :
         /\ wave = [c \in Callers |->
                      WaveOf(IF c = "sched" THEN fa ELSE fb, NominalWidths)]
         /\ transitions = wave
    /\ lastLevel = [c \in Callers |-> "High"]
    /\ timerFired = [c \in Callers |-> FALSE]
    /\ data = [c \in Callers |-> ZeroData]
    /\ ret = [c \in Callers |-> NoRet]
    /\ out = [c \in Callers |-> NoOut]
    /\ ops = [c \in Callers |-> [low |-> 1, high |-> 1, input |-> 1, read |-> 1]]
    /\ pin = "in"
    /\ lastOp = "sched"
    /\ interleaved = FALSE
    /\ SchedInit
    /\ LibInit
    /\ WsInit

\* decoding and extraction applied to each of the two captures
NextPair ==
    \E c \in Callers :
        \/ ParseData(c) /\ UNCHANGED <<schedVars, libVars, wsVars>>
        \/ VerifyChecksum(c) /\ UNCHANGED <<schedVars, libVars, wsVars>>

SpecPair == InitPair /\ [][NextPair]_vars

\* ------------------------------------------------------------------------
\* Properties
\* ------------------------------------------------------------------------

\* readDHT22 has returned to Read, or Read to its caller
Returned(c) == pc[c] \in {"ret", "returned"}

\* the capture of the read was complete, so that data holds a decoded frame
Captured(c) == Len(transitions[c]) = NeedTransitions

\* the frame's fifth byte is not the sum of the first four modulo 256
BadSum(f) == f[5] # (f[1] + f[2] + f[3] + f[4]) % 256

\* C1: a decoded frame whose fifth byte differs from the sum of the first
\* four modulo 256 makes the read fail with a checksum mismatch, and neither
\* readDHT22 nor Read hands out a temperature or humidity for it.
C1_ChecksumEnforced ==
    \A c \in Callers :
        (Returned(c) /\ Captured(c) /\ BadSum(data[c])) =>
            /\ ret[c].err = "checksum mismatch"
            /\ ret[c].temperature = Zero
            /\ ret[c].humidity = Zero
            /\ (pc[c] = "returned" =>
                   out[c].data = Nil /\ out[c].err = "checksum mismatch")

C1_Witness ==
    /\ pc["sched"] = "returned"
    /\ Captured("sched")
    /\ BadSum(data["sched"])
    /\ data["sched"][1] # 0
    /\ out["sched"].err = "checksum mismatch"

\* the deadline ended the read of caller c
DeadlineHit(c) == Returned(c) /\ timerFired[c]

\* C2: a deadline that expires after n captured transitions, 3 <= n <= 82,
\* fails the read with "insufficient data" carrying n.
C2_InsufficientOnDeadline ==
    \A c \in Callers :
        (DeadlineHit(c) /\ Len(transitions[c]) \in 3..(NeedTransitions - 1)) =>
            /\ ret[c].err = "insufficient data"
            /\ ret[c].count = Len(transitions[c])

\* C3: a deadline that expires after fewer than 3 captured transitions fails
\* the read with the timeout error (no sensor response), not with
\* "insufficient data", and no reading is returned.
C3_HandshakeTimeout ==
    \A c \in Callers :
        (DeadlineHit(c) /\ Len(transitions[c]) < 3) =>
            /\ ret[c].err = "timeout waiting for sensor response"
            /\ (pc[c] = "returned" =>
                   /\ out[c].err = "timeout waiting for sensor response"
                   /\ out[c].data = Nil)

C3_Witness ==
    /\ pc["sched"] = "returned"
    /\ timerFired["sched"]
    /\ Len(transitions["sched"]) = 2
    /\ out["sched"].err = "timeout waiting for sensor response"

\* C4: the line operations of one Read never fall between the line
\* operations of another Read on the same instance.
C4_ReadsSerialized == ~interleaved

\* C5: every Read that was entered returns, whatever the line does, and once
\* the deadline has fired no further transition is captured.
C5_ReadReturns ==
    /\ (pc["sched"] \notin {"idle", "returned"}) ~> (pc["sched"] = "returned")
    /\ [][(pc["sched"] = "sample" /\ timerFired["sched"]) =>
            (transitions'["sched"] = transitions["sched"]
             /\ pc'["sched"] \in {"sample", "ret"})]_vars

C5_Witness ==
    /\ pc["sched"] = "returned"
    /\ timerFired["sched"]
    /\ wave["sched"] = <<>>
    /\ transitions["sched"] = <<>>

\* data of caller c holds the result of the decoding loop
Decoded(c) == pc[c] \in {"checksum", "ret", "returned"} /\ Captured(c)

\* C6: after decoding 83 transitions, for every bit slot k in 0..39 the bit
\* at position 7 - (k mod 8) of byte k div 8 is 1 exactly when transition
\* 4 + 2k lasted more than 50 microseconds; data is 5 bytes.
C6_DecodeBits ==
    \A c \in Callers :
        Decoded(c) =>
            /\ DOMAIN data[c] = 1..5
            /\ \A b \in 1..5 : data[c][b] \in 0..255
            /\ \A k \in 0..39 :
                 (data[c][(k \div 8) + 1] \div (2 ^ (7 - (k % 8)))) % 2
                   = IF transitions[c][4 + 2 * k + 1] > 50000 THEN 1 ELSE 0

C6_Witness ==
    /\ pc["sched"] = "checksum"
    /\ Captured("sched")
    /\ \E k1 \in 0..39, k2 \in 0..39 :
         /\ transitions["sched"][4 + 2 * k1 + 1] = 50000
         /\ transitions["sched"][4 + 2 * k2 + 1] = 50001
         /\ transitions["sched"][3 + 2 * k1 + 1] > 50000
    /\ data["sched"][2] = 197

\* the two frames agree except for bit 7 of byte 2 and the checksum byte
SignFlipped(fa, fb) ==
    /\ fa[1] = fb[1]
    /\ fa[2] = fb[2]
    /\ fa[4] = fb[4]
    /\ fa[3] # fb[3]
    /\ fa[3] % 128 = fb[3] % 128

Abs(x) == IF x < 0 THEN 0 - x ELSE x

\* C7: of two checksum-valid frames that differ only in bit 7 of byte 2, the
\* temperatures are negations of each other with magnitude
\* ((byte2 & 0x7F) << 8 | byte3) / 10 and the humidities are equal; humidity
\* is (byte0 << 8 | byte1) / 10 whatever the other bytes, and not negative.
C7_SignIsolation ==
    \A a \in Callers, b \in Callers :
        (pc[a] = "ret" /\ pc[b] = "ret" /\ ret[a].err = "nil" /\ ret[b].err = "nil") =>
            /\ ret[a].humidity = [num |-> data[a][1] * 256 + data[a][2], den |-> 10]
            /\ ret[a].humidity.num >= 0
            /\ ret[a].temperature.den = 10
            /\ Abs(ret[a].temperature.num) = (data[a][3] % 128) * 256 + data[a][4]
            /\ (data[a][1] = data[b][1] /\ data[a][2] = data[b][2]) =>
                   ret[a].humidity = ret[b].humidity
            /\ SignFlipped(data[a], data[b]) =>
                   /\ ret[a].temperature.num = 0 - ret[b].temperature.num
                   /\ ret[a].humidity = ret[b].humidity

C7_Witness ==
    /\ pc["sched"] = "ret"
    /\ pc["other"] = "ret"
    /\ ret["sched"].err = "nil"
    /\ ret["other"].err = "nil"
    /\ SignFlipped(data["sched"], data["other"])
    /\ ret["sched"].temperature.num = 237
    /\ ret["other"].temperature.num = 0 - 237
    /\ ret["sched"].humidity.num = 453

\* C8: a humidity h and a signed temperature t, encoded as payload, checksum
\* and 83 transitions with 27 and 70 microsecond high pulses, come back from
\* a read that captured them as exactly h/10 and t/10, without error.
C8_RoundTrip ==
    \A c \in Callers : \A h \in HumVals, t \in TempVals, neg \in SignVals :
        (Returned(c) /\ Captured(c)
         /\ wave[c] = WaveOf(FrameOf(h, t, neg, 0), NominalWidths)) =>
            /\ ret[c].err = "nil"
            /\ ret[c].humidity = [num |-> h, den |-> 10]
            /\ ret[c].temperature = [num |-> IF neg = 1 THEN 0 - t ELSE t, den |-> 10]
            /\ (pc[c] = "returned" =>
                   /\ out[c].err = "nil"
                   /\ out[c].data.Fields.humidity = [num |-> h, den |-> 10]
                   /\ out[c].data.Fields.temperature =
                          [num |-> IF neg = 1 THEN 0 - t ELSE t, den |-> 10])

C8_Witness ==
    /\ pc["sched"] = "returned"
    /\ wave["sched"] = WaveOf(FrameOf(453, 237, 1, 0), NominalWidths)
    /\ out["sched"].err = "nil"
    /\ out["sched"].data.Fields.humidity.num = 453
    /\ out["sched"].data.Fields.temperature.num = 0 - 237

\* the sensors read since the last tick, in the order they were read
ReadsOf(log) == SelectSeq(log, LAMBDA e : e[1] = "read")

\* C9: since the last tick the sensors were read in list order, each once,
\* whether or not a read failed; when the loop is over all of them were
\* read and the scheduler waits for the next tick.
C9_AllSensorsRead ==
    LET r == ReadsOf(tickLog)
    IN  /\ \A i \in 1..Len(r) : r[i] = <<"read", i>>
        /\ schedPc \in {"waitTick", "callRead", "inRead", "gotRead", "write", "broadcast"}
        /\ (schedPc = "waitTick" /\ idx # 0) => Len(r) = Len(Sensors)
        /\ (schedPc = "callRead") => Len(r) = idx - 1
        /\ (schedPc \in {"inRead", "gotRead", "write", "broadcast"}) => Len(r) = idx
        /\ (idx > Len(Sensors)) => schedPc = "waitTick"

C9_Witness ==
    /\ schedPc = "waitTick"
    /\ tickPending
    /\ tickLog = <<<<"read", 1>>, <<"error", 1>>,
                   <<"read", 2>>, <<"write", 2>>, <<"broadcast", 2>>,
                   <<"read", 3>>, <<"write", 3>>, <<"broadcast", 3>>>>

\* the phase of the read state machine caller c is in
Phase(c) ==
    CASE pc[c] = "idle" -> "Idle"
      [] pc[c] \in {"outLow", "outHigh", "setIn"} -> "Handshaking"
      [] pc[c] = "firstRead" -> "AwaitingResponse"
      [] pc[c] = "sample" /\ Len(transitions[c]) < 3 -> "AwaitingResponse"
      [] pc[c] = "sample" /\ Len(transitions[c]) >= 3 -> "CollectingBits"
      [] pc[c] = "parse" -> "Decoding"
      [] pc[c] = "checksum" -> "Validating"
      [] pc[c] \in {"ret", "returned"} /\ ret[c].err = "nil" -> "Done"
      [] pc[c] \in {"ret", "returned"} /\ ret[c].err # "nil" -> "Failed"

Rank(phase) ==
    CASE phase = "Idle" -> 0
      [] phase = "Handshaking" -> 1
      [] phase = "AwaitingResponse" -> 2
      [] phase = "CollectingBits" -> 3
      [] phase = "Decoding" -> 4
      [] phase = "Validating" -> 5
      [] phase \in {"Done", "Failed"} -> 6

\* C10: within one Read the phase never moves back and a terminal phase is
\* left only by the return to Idle; each handshake call is issued at most
\* once and the level is read only after the line was switched to input; a
\* returned Read carries either a reading or an error.
C10_PhaseOrder ==
    /\ [][\A c \in Callers :
            \/ Rank(Phase(c)') >= Rank(Phase(c)) /\ Phase(c) \notin {"Done", "Failed"}
            \/ Phase(c) \in {"Done", "Failed"} /\ Phase(c)' \in {Phase(c), "Idle"}]_vars
    /\ [](\A c \in Callers :
            /\ ops[c].low <= 1 /\ ops[c].high <= 1 /\ ops[c].input <= 1
            /\ ops[c].read = 1 => (ops[c].input = 1 /\ pin = "in")
            /\ pc[c] = "returned" =>
                 \/ out[c].err = "nil" /\ out[c].data # Nil
                 \/ out[c].err \notin {"nil", "unset"} /\ out[c].data = Nil)

C10_Witness ==
    /\ pc["sched"] = "returned"
    /\ Phase("sched") = "Done"
    /\ ops["sched"] = [low |-> 1, high |-> 1, input |-> 1, read |-> 1]
    /\ out["sched"].data.SensorType = "dht22"

\* C11: a returned Read carries a "dht22" reading with exactly the fields
\* temperature and humidity and a nil error, or no reading and an error that
\* is not nil; and it carries a reading exactly when readDHT22 gave no error.
C11_ReadingXorError ==
    \A c \in Callers :
        pc[c] = "returned" =>
            /\ out[c].err # "unset"
            /\ (ret[c].err = "nil") <=> (out[c].data # Nil)
            /\ (out[c].err = "nil") <=> (out[c].data # Nil)
            /\ (out[c].data = Nil) <=> (out[c].err # "nil")
            /\ out[c].data # Nil =>
                 /\ out[c].data.SensorType = "dht22"
                 /\ DOMAIN out[c].data.Fields = {"temperature", "humidity"}
                 /\ out[c].data.Fields.temperature = ret[c].temperature
                 /\ out[c].data.Fields.humidity = ret[c].humidity

C11_Witness ==
    /\ pc["sched"] = "returned"
    /\ out["sched"].err = "checksum mismatch"
    /\ out["sched"].data = Nil
    /\ data["sched"][2] = 197

\* C12: Close always returns normally, and a call of Close that follows
\* another leaves the sensor and any Read in progress as they were, so two
\* calls leave the state one call leaves.
C12_CloseIdempotent ==
    /\ [](closeResult \in {"none", "returned"})
    /\ [][(closes' > closes /\ closes >= 1) =>
            /\ closeResult' = "returned"
            /\ pin' = pin
            /\ UNCHANGED <<pc, transitions, data, ret, out, ops>>]_vars

C12_Witness ==
    /\ closes = 2
    /\ closeResult = "returned"
    /\ pc["sched"] = "sample"
    /\ Len(transitions["sched"]) = 40

\* C13: at most one goroutine is inside an operation on the registry of
\* viewer connections: no handler adds or removes a connection while the
\* broadcaster ranges over the registry, and no two handlers mutate it at once.
C13_RegistrySerialized == Cardinality(MapAccessors) <= 1

HandshakeErrors ==
    {"failed to set pin low", "failed to set pin high", "failed to set pin to input"}

\* C14: a Read goes on to the next handshake step, and to polling, only when
\* the step before took effect; a Read that failed in the handshake issued
\* no later handshake call, never read the level and returns no reading, and
\* a Read that returns without having read the level failed in the handshake.
C14_HandshakeAbort ==
    \A c \in Callers :
        /\ pc[c] = "outHigh" => pin = "low"
        /\ pc[c] = "setIn" => pin = "high"
        /\ pc[c] \in {"firstRead", "sample", "parse", "checksum"} => pin = "in"
        /\ (Returned(c) /\ ret[c].err = "failed to set pin low") =>
               ops[c] = [low |-> 1, high |-> 0, input |-> 0, read |-> 0]
        /\ (Returned(c) /\ ret[c].err = "failed to set pin high") =>
               ops[c] = [low |-> 1, high |-> 1, input |-> 0, read |-> 0]
        /\ (Returned(c) /\ ret[c].err = "failed to set pin to input") =>
               ops[c] = [low |-> 1, high |-> 1, input |-> 1, read |-> 0]
        /\ (Returned(c) /\ ops[c].read = 0) =>
               /\ ret[c].err \in HandshakeErrors
               /\ ret[c].temperature = Zero /\ ret[c].humidity = Zero
               /\ transitions[c] = <<>>
               /\ pc[c] = "returned" => (out[c].data = Nil /\ out[c].err = ret[c].err)

C14_Witness ==
    /\ pc["sched"] = "returned"
    /\ out["sched"].err = "failed to set pin high"
    /\ ops["sched"] = [low |-> 1, high |-> 1, input |-> 0, read |-> 0]
    /\ pin = "low"

\* what caller c observed in its Read: the handshake calls issued with their
\* results, the transitions captured and whether the deadline passed
SameObservations(a, b) ==
    /\ ops[a] = ops[b]
    /\ transitions[a] = transitions[b]
    /\ timerFired[a] = timerFired[b]

\* C15: two Reads on the instance that observed the same handshake results
\* and the same transitions return the same reading or the same error,
\* whatever Reads came before each of them.
C15_HistoryIndependent ==
    \A a \in Callers, b \in Callers :
        (pc[a] = "returned" /\ pc[b] = "returned" /\ SameObservations(a, b)) =>
            /\ out[a] = out[b]
            /\ ret[a] = ret[b]

C15_Witness ==
    /\ pc["sched"] = "returned"
    /\ pc["other"] = "returned"
    /\ SameObservations("sched", "other")
    /\ transitions["sched"] = BaseWave
    /\ prior["sched"] = "checksum mismatch"
    /\ prior["other"] = "none"
    /\ out["sched"].err = "nil"

\* the last entry of the log of the current tick
LastLog == IF tickLog = <<>> THEN <<"none", 0>> ELSE tickLog[Len(tickLog)]

\* every entry of the log follows the entry the loop body puts before it
LogInOrder(log) ==
    \A j \in 1..Len(log) :
        LET e == log[j]
            p == IF j = 1 THEN <<"none", 0>> ELSE log[j - 1]
        IN  CASE e[1] = "read" ->
                   /\ p[2] = e[2] - 1
                   /\ p[1] \in (IF j = 1 THEN {"none"} ELSE {"error", "broadcast"})
              [] e[1] = "error" -> p = <<"read", e[2]>>
              [] e[1] = "write" -> p = <<"read", e[2]>>
              [] e[1] = "broadcast" -> p = <<"write", e[2]>>

\* C16: the reading of a sensor is written to the sink once and then
\* broadcast once, before the next sensor is read, exactly when its Read gave
\* no error; after a failed Read the next thing the scheduler does is read
\* the next sensor, nothing is written and nothing is broadcast.
C16_ForwardIffSuccess ==
    /\ [](/\ LogInOrder(tickLog)
          /\ schedPc \in {"write", "broadcast"} =>
                /\ cur.err = "nil"
                /\ cur.data # Nil
          /\ schedPc = "write" => LastLog = <<"read", idx>>
          /\ schedPc = "broadcast" => LastLog = <<"write", idx>>
          /\ (schedPc = "callRead" /\ idx > 1) =>
                (LastLog[2] = idx - 1 /\ LastLog[1] \in {"error", "broadcast"})
          /\ (schedPc = "waitTick" /\ idx > Len(Sensors)) =>
                (LastLog[2] = Len(Sensors) /\ LastLog[1] \in {"error", "broadcast"}))
    /\ [][/\ (schedPc = "inRead" /\ schedPc' = "gotRead") => cur' = out["sched"]
          /\ (schedPc = "gotRead" /\ schedPc' # "gotRead") =>
                IF cur.err = "nil"
                THEN schedPc' = "write" /\ cur' = cur /\ tickLog' = tickLog
                ELSE /\ tickLog' = Append(tickLog, <<"error", idx>>)
                     /\ schedPc' \in {"callRead", "waitTick"}
                     /\ idx' = idx + 1
          /\ (schedPc \in {"write", "broadcast"}) => (cur' = cur \/ cur' = NoOut)]_vars

C16_Witness ==
    /\ schedPc = "callRead"
    /\ idx = 3
    /\ tickLog = <<<<"read", 1>>, <<"write", 1>>, <<"broadcast", 1>>,
                   <<"read", 2>>, <<"write", 2>>, <<"broadcast", 2>>>>
    /\ pc["sched"] = "idle"

\* the callers that are inside Read
InRead == {c \in Callers : pc[c] # "idle"}

\* C17: with viewers connecting and disconnecting at any time, at most one
\* Read is in flight; while the process runs it is the one the scheduler
\* goroutine waits for, no line operation of another caller falls into it,
\* and a simulated sensor is read only while no Read of the DHT22 is in flight.
C17_OneReadInFlight ==
    /\ [](/\ Cardinality(InRead) <= 1
          /\ InRead \subseteq {"sched"}
          /\ Alive => (("sched" \in InRead) <=> (schedPc = "inRead"))
          /\ schedPc = "inRead" => Sensors[idx] = "DHT22"
          /\ ~interleaved)
    /\ [][(schedPc = "callRead" /\ schedPc' = "gotRead") => (InRead = {} /\ InRead' = {})]_vars

C17_Witness ==
    /\ InRead = {"sched"}
    /\ pc["sched"] = "sample"
    /\ schedPc = "inRead"
    /\ hpc["k1"] = "registering"
    /\ hpc["k2"] = "unregistering"

\* C18: the connection the broadcaster last called WriteJSON on was, at the
\* call, in the registry and open, and its handler had not run its deferred
\* delete and Close.
C18_WriteOnlyToLive ==
    /\ lastWrite.registered
    /\ lastWrite.conn = "open"
    /\ ~lastWrite.exited

\* C19: a capture never holds more than 83 transitions, decoding and the
\* checksum are reached with exactly 83, no Read returns "insufficient
\* data", and a Read that polled the line and returns with fewer than 83
\* transitions returns through the deadline.
C19_ExactlyNeeded ==
    \A c \in Callers :
        /\ Len(transitions[c]) <= NeedTransitions
        /\ pc[c] \in {"parse", "checksum"} => Len(transitions[c]) = NeedTransitions
        /\ Returned(c) =>
              /\ ret[c].err # "insufficient data"
              /\ ret[c].err \in {"nil", "checksum mismatch"} =>
                    Len(transitions[c]) = NeedTransitions
              /\ (ops[c].read = 1 /\ Len(transitions[c]) < NeedTransitions) =>
                    /\ timerFired[c]
                    /\ ret[c].err = "timeout waiting for sensor response"

C19_Witness ==
    /\ pc["sched"] = "parse"
    /\ Len(wave["sched"]) > NeedTransitions
    /\ Len(transitions["sched"]) = NeedTransitions
    /\ ~timerFired["sched"]

====
